---- MODULE Spec2Model ----
(***************************************************************************)
(* A model of SnowflakeGenerator (src/src/lib.rs): the constructor `new`,  *)
(* the operation `next_id`, its helper loop `til_next_milliseconds` and    *)
(* the clock reader `get_current_timestamp`, together with the wall clock  *)
(* they read.                                                              *)
(*                                                                         *)
(* Integer widths.  u8 and u16/i16 values are modelled at their own width. *)
(* u128 values are modelled as words of WordBits bits (residues modulo     *)
(* 2^WordBits): 2^128 is outside the integers TLC computes with.  Wall     *)
(* clock readings stay far below 2^(WordBits - TIMESTAMP_LEFT_SHIFT), as   *)
(* real ones (below 2^74) stay far below 2^106.                            *)
(*                                                                         *)
(* Arithmetic overflow.  `as_millis() - offset` overflows when the wall    *)
(* clock is below the offset: a build with overflow checks panics, a build *)
(* without them wraps.  The variable `build` fixes which one the program   *)
(* is; both are explored.                                                  *)
(***************************************************************************)
EXTENDS Integers, Sequences, FiniteSets, TLC

VARIABLES
    build,      \* "debug": overflow checks on; "release": wrapping arithmetic
    clock,      \* the wall clock, in milliseconds since UNIX_EPOCH
    args,       \* args[g]: the arguments generator g is (to be) constructed with
    gen,        \* gen[g]: the fields of generator g
    pc,         \* pc[g]: "off" | "start" | "idle" | "wait" | "dead"
    outcome,    \* outcome[g]: what the latest call on g did
    call,       \* call[g]: what the latest next_id call on g saw at entry
    hist,       \* hist[g]: the identifiers returned by g, in order (recorded runs)
    pairs,      \* pairs[g]: <<last_time_millis, sequence>> of each identifier in hist[g]
    limit,      \* limit[g]: how many identifiers of g are kept in hist[g]
    recorded,   \* TRUE in the runs that end when hist[g] holds limit[g] identifiers
    regressed   \* in a recorded run: the clock has been set back

vars == <<build, clock, args, gen, pc, outcome, call, hist, pairs, limit, recorded, regressed>>

----------------------------------------------------------------------------
(* Bounds of the model *)

\* The wall clock ranges over 0..MaxClock.
MaxClock == 2

\* The width, in bits, u128 words are modelled with.
WordBits == 28

\* Identifiers per generator a recorded single-generator run follows.
MaxHistIds == 34

\* Identifiers per generator a recorded two-generator run follows.
MaxPairIds == 2

Gens == {1, 2}

----------------------------------------------------------------------------
(* Constants of SnowflakeGenerator *)

WORKER_ID_BITS == 5

DATA_CENTER_BITS == 5

SEQUENCE_BITS == 12

\* -1 ^ (-1 << n) on a two's complement integer is the n low bits set.
LowBitsSet(n) == 2^n - 1

MAX_WORK_ID == LowBitsSet(WORKER_ID_BITS)

MAX_DATA_CENTER_ID == LowBitsSet(DATA_CENTER_BITS)

SEQUENCE_MASK == LowBitsSet(SEQUENCE_BITS)

TIMESTAMP_LEFT_SHIFT == SEQUENCE_BITS + WORKER_ID_BITS + DATA_CENTER_BITS

----------------------------------------------------------------------------
(* Machine arithmetic *)

\* `x as i8` for a u8 x.
AsI8(x) == IF x >= 128 THEN x - 256 ELSE x

\* `x as i16` for a u16 x.
AsI16(x) == IF x >= 32768 THEN x - 65536 ELSE x

\* `x as u16` for an i16 x.
AsU16(x) == IF x < 0 THEN x + 65536 ELSE x

\* Rust's `%` on signed integers: the remainder has the sign of the dividend.
Rem(a, b) == IF a >= 0 THEN a % b ELSE 0 - ((0 - a) % b)

\* `x << n` on a u8, n < 8: the bits shifted out are lost.
ShlU8(x, n) == (x * 2^n) % 256

\* `x << n` on a u128 word, n < the width: the bits shifted out are lost.
ShlU128(x, n) == (x % 2^(WordBits - n)) * 2^n

\* Bitwise or of two naturals.
RECURSIVE BitOr(_, _)
BitOr(a, b) ==
    IF a = 0 THEN b
    ELSE IF b = 0 THEN a
    ELSE (IF a % 2 = 1 \/ b % 2 = 1 THEN 1 ELSE 0) + 2 * BitOr(a \div 2, b \div 2)

----------------------------------------------------------------------------
(* The pure parts of SnowflakeGenerator *)

\* get_current_timestamp: the wall clock minus the offset, as a u128.
\* wall < offset overflows the subtraction.
get_current_timestamp(wall, offset, b) ==
    IF wall >= offset THEN [panic |-> FALSE, value |-> wall - offset]
    ELSE IF b = "debug" THEN [panic |-> TRUE, value |-> 0]
    ELSE [panic |-> FALSE, value |-> wall - offset + 2^WordBits]

\* new: `worker_id as i8 > MAX_WORK_ID`.
WorkerIdRejected(worker_id) == AsI8(worker_id) > MAX_WORK_ID

\* new: `data_center_id as i8 > MAX_DATA_CENTER_ID`.
DataCenterIdRejected(data_center_id) == AsI8(data_center_id) > MAX_DATA_CENTER_ID

\* A variant of ClockMovedBackwards that misses a regression of one millisecond.
ClockMovedBackwards_OffByOne(now, last_time_millis) == now + 1 < last_time_millis

\* next_id: `now < self.last_time_millis`.
ClockMovedBackwards(now, last_time_millis) == now < last_time_millis

\* next_id: the number of milliseconds the panic message reports.
RefusedMillis(now, last_time_millis) == last_time_millis - now

\* next_id: `self.last_time_millis == now`.
SameMillisecond(now, last_time_millis) == last_time_millis = now

\* next_id: `(((self.sequence + 1) as i16) % SEQUENCE_MASK) as u16`.
NextSequence(sequence) == AsU16(Rem(AsI16(sequence + 1), SEQUENCE_MASK))

\* A variant of NextMillisecondReached that asks for two milliseconds more.
NextMillisecondReached_OffByOne(now, last_time_millis) == now > last_time_millis + 1

\* A variant of NextMillisecondReached that takes any other millisecond.
NextMillisecondReached_NotEqual(now, last_time_millis) == now # last_time_millis

\* til_next_milliseconds: `now > last_time_millis`.
NextMillisecondReached(now, last_time_millis) == now > last_time_millis

\* A variant of LeftByPanic that gives the sequence up.
LeftByPanic_SequenceReset(self) == [self EXCEPT !.sequence = 0]

\* next_id: the fields a panic of the clock checks leaves behind: nothing of
\* self is written before them.
LeftByPanic(self) == self

\* next_id: `self.sequence = ...`.
StoreSequence(self, sequence) == [self EXCEPT !.sequence = sequence]

\* A variant of StoreLastTime that writes the reading into the offset.
StoreLastTime_IntoOffset(self, now) == [self EXCEPT !.timestamp_offset = now]

\* next_id: `self.last_time_millis = now`.
StoreLastTime(self, now) == [self EXCEPT !.last_time_millis = now]

\* A variant of ComposeId that leaves the sequence out.
ComposeId_NoSequence(last_time_millis, data_center_id, worker_id, sequence) ==
    BitOr(BitOr(ShlU128(last_time_millis, TIMESTAMP_LEFT_SHIFT),
                ShlU8(data_center_id, DATA_CENTER_BITS)),
          ShlU8(worker_id, WORKER_ID_BITS))

\* next_id: the identifier composed from the fields.
ComposeId(last_time_millis, data_center_id, worker_id, sequence) ==
    BitOr(BitOr(BitOr(ShlU128(last_time_millis, TIMESTAMP_LEFT_SHIFT),
                      ShlU8(data_center_id, DATA_CENTER_BITS)),
                ShlU8(worker_id, WORKER_ID_BITS)),
          sequence)

----------------------------------------------------------------------------
(* States *)

NoGen ==
    [worker_id |-> 0, data_center_id |-> 0, sequence |-> 0,
     timestamp_offset |-> 0, last_time_millis |-> 0]

NoOutcome == [kind |-> "none", id |-> 0, millis |-> 0]

Returned(id) == [kind |-> "returned", id |-> id, millis |-> 0]

Panicked(kind, millis) == [kind |-> kind, id |-> 0, millis |-> millis]

\* What a next_id call saw: the wall clock reading it adopted, its first
\* offset-adjusted reading (when the subtraction gave one), the generator's
\* fields at entry, whether it went through til_next_milliseconds, and
\* whether a reading taken there was below last_time_millis.
NoCall ==
    [made |-> FALSE, wall |-> 0, read |-> FALSE, now |-> 0,
     last_time_millis |-> 0, sequence |-> 0, waited |-> FALSE, below |-> FALSE]

EnteredCall(wall, t, g) ==
    [made |-> TRUE, wall |-> wall, read |-> ~t.panic, now |-> t.value,
     last_time_millis |-> gen[g].last_time_millis,
     sequence |-> gen[g].sequence, waited |-> FALSE, below |-> FALSE]

\* hist[g] and pairs[g] take the identifiers g returns while they hold fewer
\* than limit[g].
Record(g, id) == IF Len(hist[g]) < limit[g] THEN Append(hist[g], id) ELSE hist[g]

RecordPair(g, last_time_millis, sequence) ==
    IF Len(pairs[g]) < limit[g]
    THEN Append(pairs[g], <<last_time_millis, sequence>>)
    ELSE pairs[g]

----------------------------------------------------------------------------
(* Operations *)

\* SnowflakeGenerator::new(worker_id, data_center_id, timestamp_offset)
new(g) ==
    /\ pc[g] = "start"
    /\ LET a == args[g]
           t == get_current_timestamp(clock, a.timestamp_offset, build)
       IN  IF WorkerIdRejected(a.worker_id)
           THEN /\ pc' = [pc EXCEPT ![g] = "dead"]
                /\ outcome' = [outcome EXCEPT ![g] = Panicked("panic_worker_id", 0)]
                /\ gen' = gen
           ELSE IF DataCenterIdRejected(a.data_center_id)
           THEN /\ pc' = [pc EXCEPT ![g] = "dead"]
                /\ outcome' = [outcome EXCEPT ![g] = Panicked("panic_data_center_id", 0)]
                /\ gen' = gen
           ELSE IF t.panic
           THEN /\ pc' = [pc EXCEPT ![g] = "dead"]
                /\ outcome' = [outcome EXCEPT ![g] = Panicked("panic_overflow", 0)]
                /\ gen' = gen
           ELSE /\ pc' = [pc EXCEPT ![g] = "idle"]
                /\ outcome' = [outcome EXCEPT ![g] = [kind |-> "constructed", id |-> 0, millis |-> 0]]
                /\ gen' = [gen EXCEPT ![g] =
                             [worker_id |-> a.worker_id,
                              data_center_id |-> a.data_center_id,
                              sequence |-> 0,
                              timestamp_offset |-> a.timestamp_offset,
                              last_time_millis |-> t.value]]
    /\ UNCHANGED <<build, clock, args, call, hist, pairs, limit, recorded, regressed>>

\* SnowflakeGenerator::next_id(&mut self), up to its return, its panic, or its
\* entry into til_next_milliseconds.
next_id(g) ==
    /\ pc[g] = "idle"
    /\ recorded => Len(hist[g]) < limit[g]
    /\ LET s == gen[g]
           t == get_current_timestamp(clock, s.timestamp_offset, build)
           now == t.value
           c == EnteredCall(clock, t, g)
       IN  IF t.panic
           THEN /\ outcome' = [outcome EXCEPT ![g] = Panicked("panic_overflow", 0)]
                /\ call' = [call EXCEPT ![g] = c]
                /\ gen' = [gen EXCEPT ![g] = LeftByPanic(s)]
                /\ UNCHANGED <<pc, hist, pairs>>
           ELSE IF ClockMovedBackwards(now, s.last_time_millis)
           THEN /\ outcome' = [outcome EXCEPT ![g] =
                      Panicked("panic_clock_backwards", RefusedMillis(now, s.last_time_millis))]
                /\ call' = [call EXCEPT ![g] = c]
                /\ gen' = [gen EXCEPT ![g] = LeftByPanic(s)]
                /\ UNCHANGED <<pc, hist, pairs>>
           ELSE IF SameMillisecond(now, s.last_time_millis)
           THEN LET seq == NextSequence(s.sequence)
                IN  IF seq = 0
                    THEN \* self.sequence is written; the call is in
                         \* til_next_milliseconds(self.last_time_millis, ...)
                         /\ gen' = [gen EXCEPT ![g] = StoreSequence(s, seq)]
                         /\ pc' = [pc EXCEPT ![g] = "wait"]
                         /\ outcome' = [outcome EXCEPT ![g] = NoOutcome]
                         /\ call' = [call EXCEPT ![g] = [c EXCEPT !.waited = TRUE]]
                         /\ UNCHANGED <<hist, pairs>>
                    ELSE LET id == ComposeId(now, s.data_center_id, s.worker_id, seq)
                         IN  /\ gen' = [gen EXCEPT ![g] =
                                          StoreLastTime(StoreSequence(s, seq), now)]
                             /\ outcome' = [outcome EXCEPT ![g] = Returned(id)]
                             /\ call' = [call EXCEPT ![g] = c]
                             /\ hist' = [hist EXCEPT ![g] = Record(g, id)]
                             /\ pairs' = [pairs EXCEPT ![g] = RecordPair(g, now, seq)]
                             /\ pc' = pc
           ELSE LET id == ComposeId(now, s.data_center_id, s.worker_id, 0)
                IN  /\ gen' = [gen EXCEPT ![g] =
                                 StoreLastTime(StoreSequence(s, 0), now)]
                    /\ outcome' = [outcome EXCEPT ![g] = Returned(id)]
                    /\ call' = [call EXCEPT ![g] = c]
                    /\ hist' = [hist EXCEPT ![g] = Record(g, id)]
                    /\ pairs' = [pairs EXCEPT ![g] = RecordPair(g, now, 0)]
                    /\ pc' = pc
    /\ UNCHANGED <<build, clock, args, limit, recorded, regressed>>

\* One round of the loop of til_next_milliseconds, and, when the loop
\* returns, the rest of next_id.  A round that sleeps changes nothing of
\* the generator.
til_next_milliseconds(g) ==
    /\ pc[g] = "wait"
    /\ LET s == gen[g]
           t == get_current_timestamp(clock, s.timestamp_offset, build)
           now == t.value
       IN  IF t.panic
           THEN /\ outcome' = [outcome EXCEPT ![g] = Panicked("panic_overflow", 0)]
                /\ pc' = [pc EXCEPT ![g] = "idle"]
                /\ UNCHANGED <<gen, call, hist, pairs>>
           ELSE IF NextMillisecondReached(now, s.last_time_millis)
           THEN LET id == ComposeId(now, s.data_center_id, s.worker_id, s.sequence)
                IN  /\ gen' = [gen EXCEPT ![g] = StoreLastTime(s, now)]
                    /\ outcome' = [outcome EXCEPT ![g] = Returned(id)]
                    /\ call' = [call EXCEPT ![g].wall = clock]
                    /\ hist' = [hist EXCEPT ![g] = Record(g, id)]
                    /\ pairs' = [pairs EXCEPT ![g] = RecordPair(g, now, s.sequence)]
                    /\ pc' = [pc EXCEPT ![g] = "idle"]
           ELSE \* std::thread::sleep, and the loop goes round
                /\ call' = [call EXCEPT ![g].below = @ \/ now < s.last_time_millis]
                /\ UNCHANGED <<gen, pc, outcome, hist, pairs>>
    /\ UNCHANGED <<build, clock, args, limit, recorded, regressed>>

\* The wall clock moves on by a millisecond.
Tick ==
    /\ clock < MaxClock
    /\ clock' = clock + 1
    /\ UNCHANGED <<build, args, gen, pc, outcome, call, hist, pairs, limit, recorded, regressed>>

\* The wall clock is set back by a millisecond.
SetBack ==
    /\ clock > 0
    /\ clock' = clock - 1
    /\ regressed' = recorded
    /\ UNCHANGED <<build, args, gen, pc, outcome, call, hist, pairs, limit, recorded>>

----------------------------------------------------------------------------
(* Initial states and specifications *)

Builds == {"debug", "release"}

Args(worker_id, data_center_id, timestamp_offset) ==
    [worker_id |-> worker_id, data_center_id |-> data_center_id,
     timestamp_offset |-> timestamp_offset]

NoArgs == Args(0, 0, 0)

\* The arguments of the unrecorded runs: valid ones with and without bits
\* set, at offsets the clock can be below, and one of each rejected kind.
SpecArgs ==
    {Args(0, 0, 1), Args(3, 1, 0), Args(31, 31, 0),
     Args(32, 0, 0), Args(0, 32, 0)}

\* The arguments of the recorded single-generator runs.
HistArgs == {Args(3, 1, 0)}

\* The arguments of the recorded two-generator runs.
PairArgs == {Args(0, 0, 0), Args(8, 0, 0), Args(3, 1, 0), Args(1, 3, 0)}

\* The arguments of the construction runs: everything the u8 parameters carry.
NewArgs == {Args(w, d, o) : w \in 0..255, d \in 0..255, o \in {0, 1}}

\* The arguments of the runs checked for progress.
LiveArgs == {Args(3, 1, 1)}
FirstArgs == {Args(0, 0, 1)}

\* A generator about to be constructed with arguments a.
Fresh(a) ==
    [args |-> a, gen |-> NoGen, pc |-> "start", outcome |-> NoOutcome,
     call |-> NoCall]

\* A generator that is not part of the run.
Off ==
    [args |-> NoArgs, gen |-> NoGen, pc |-> "off", outcome |-> NoOutcome,
     call |-> NoCall]

\* A generator that was constructed with arguments a in millisecond t of its
\* own time and has since returned from n calls made in that millisecond,
\* 0 < n < SEQUENCE_MASK.
MidLife(a, t, n) ==
    [args |-> a,
     gen |-> [worker_id |-> a.worker_id, data_center_id |-> a.data_center_id,
              sequence |-> n, timestamp_offset |-> a.timestamp_offset,
              last_time_millis |-> t],
     pc |-> "idle",
     outcome |-> Returned(ComposeId(t, a.data_center_id, a.worker_id, n)),
     call |-> [made |-> TRUE, wall |-> t + a.timestamp_offset, read |-> TRUE,
               now |-> t, last_time_millis |-> t, sequence |-> n - 1,
               waited |-> FALSE, below |-> FALSE]]

\* The generators a recorded run starts with: about to be constructed, or
\* two calls before the sequence of their millisecond runs out.
\* The clock, now at c, has not been set back since.
Starts(A, c) ==
    {Fresh(a) : a \in A}
        \cup UNION {{MidLife(a, t, SEQUENCE_MASK - 2) :
                        t \in 0..(c - a.timestamp_offset)} : a \in A}

InitGens(s) ==
    /\ args = [g \in Gens |-> s[g].args]
    /\ gen = [g \in Gens |-> s[g].gen]
    /\ pc = [g \in Gens |-> s[g].pc]
    /\ outcome = [g \in Gens |-> s[g].outcome]
    /\ call = [g \in Gens |-> s[g].call]

\* One generator, from its construction on; nothing is recorded and the
\* number of calls is not limited.
Init ==
    /\ build \in Builds
    /\ clock \in 0..MaxClock
    /\ recorded = FALSE
    /\ regressed = FALSE
    /\ hist = [g \in Gens |-> << >>]
    /\ pairs = [g \in Gens |-> << >>]
    /\ limit = [g \in Gens |-> 0]
    /\ \E a \in SpecArgs : InitGens(<<Fresh(a), Off>>)

\* One generator and at most MaxHistIds identifiers, the identifiers recorded.
InitHist ==
    /\ build \in Builds
    /\ clock \in 0..MaxClock
    /\ recorded = TRUE
    /\ regressed = FALSE
    /\ hist = [g \in Gens |-> << >>]
    /\ pairs = [g \in Gens |-> << >>]
    /\ limit = [g \in Gens |-> IF g = 1 THEN MaxHistIds ELSE 0]
    /\ \E s \in Starts(HistArgs, clock) : InitGens(<<s, Off>>)

\* Two generators with the same offset and different (data_center_id,
\* worker_id) pairs, at most MaxPairIds identifiers each, the identifiers recorded.
InitPair ==
    /\ build \in Builds
    /\ clock \in 0..MaxClock
    /\ recorded = TRUE
    /\ regressed = FALSE
    /\ hist = [g \in Gens |-> << >>]
    /\ pairs = [g \in Gens |-> << >>]
    /\ limit = [g \in Gens |-> MaxPairIds]
    /\ \E s1 \in Starts(PairArgs, clock), s2 \in Starts(PairArgs, clock) :
          /\ s1.args.timestamp_offset = s2.args.timestamp_offset
          /\ <<s1.args.data_center_id, s1.args.worker_id>>
                # <<s2.args.data_center_id, s2.args.worker_id>>
          /\ InitGens(<<s1, s2>>)

\* One construction, with any arguments.
InitNew ==
    /\ build \in Builds
    /\ clock = 0
    /\ recorded = FALSE
    /\ regressed = FALSE
    /\ hist = [g \in Gens |-> << >>]
    /\ pairs = [g \in Gens |-> << >>]
    /\ limit = [g \in Gens |-> 0]
    /\ \E a \in NewArgs : InitGens(<<Fresh(a), Off>>)

\* One generator, from its construction on, as in Init.
InitLive ==
    /\ build \in Builds
    /\ clock \in 0..MaxClock
    /\ recorded = FALSE
    /\ regressed = FALSE
    /\ hist = [g \in Gens |-> << >>]
    /\ pairs = [g \in Gens |-> << >>]
    /\ limit = [g \in Gens |-> 0]
    /\ \E a \in LiveArgs : InitGens(<<Fresh(a), Off>>)

\* One generator, from its construction on, the number of calls not limited;
\* its first identifier and the pair of that identifier are kept.
InitFirst ==
    /\ build \in Builds
    /\ clock \in 0..MaxClock
    /\ recorded = FALSE
    /\ regressed = FALSE
    /\ hist = [g \in Gens |-> << >>]
    /\ pairs = [g \in Gens |-> << >>]
    /\ limit = [g \in Gens |-> IF g = 1 THEN 1 ELSE 0]
    /\ \E a \in FirstArgs : InitGens(<<Fresh(a), Off>>)

Next ==
    \/ \E g \in Gens : new(g)
    \/ \E g \in Gens : next_id(g)
    \/ \E g \in Gens : til_next_milliseconds(g)
    \/ Tick
    \/ SetBack

NextNew == \E g \in Gens : new(g)

Spec == Init /\ [][Next]_vars

SpecHist == InitHist /\ [][Next]_vars

SpecPair == InitPair /\ [][Next]_vars

SpecNew == InitNew /\ [][NextNew]_vars

SpecFirst == InitFirst /\ [][Next]_vars

\* The thread inside til_next_milliseconds keeps running its loop.
LiveSpec ==
    InitLive /\ [][Next]_vars /\ \A g \in Gens : WF_vars(til_next_milliseconds(g))

----------------------------------------------------------------------------
(* Vocabulary of the properties *)

\* The latest call on g returned an identifier.
HasReturned(g) == outcome[g].kind = "returned"

\* The fields of an identifier, by the documented layout: sequence in bits
\* 0-11, worker in bits 12-16, data center in bits 17-21, timestamp above.
DecodeTimestamp(id) == id \div 2^TIMESTAMP_LEFT_SHIFT

DecodeSequence(id) == id % 2^SEQUENCE_BITS

DecodeDataCenter(id) == (id \div 2^(SEQUENCE_BITS + WORKER_ID_BITS)) % 2^DATA_CENTER_BITS

DecodeWorker(id) == (id \div 2^SEQUENCE_BITS) % 2^WORKER_ID_BITS

\* A clock reading taken now by g is a value above g's last_time_millis.
ClockAhead(g) ==
    LET t == get_current_timestamp(clock, gen[g].timestamp_offset, build)
    IN  ~t.panic /\ t.value > gen[g].last_time_millis

\* The latest call on g went through til_next_milliseconds and returned.
WaitReturned(g) == pc[g] = "idle" /\ call[g].waited /\ HasReturned(g)

----------------------------------------------------------------------------
(* Properties *)

\* C1. Uniqueness on one generator: under a clock that is never set back,
\* the identifiers one generator returns are pairwise distinct.
C1_Uniqueness ==
    \A g \in Gens :
        ~regressed =>
            \A i, j \in 1..Len(hist[g]) : i # j => hist[g][i] # hist[g][j]

\* C2. Uniqueness across generators: two generators with the same offset and
\* different (data_center_id, worker_id) pairs, reading the same clock, never
\* return the same identifier.
C2_CrossUniqueness ==
    \A i \in 1..Len(hist[1]), j \in 1..Len(hist[2]) : hist[1][i] # hist[2][j]

\* C3. Monotonicity: under a clock that is never set back, an identifier one
\* generator returns is strictly less than every identifier it returns later.
C3_Monotonic ==
    \A g \in Gens :
        ~regressed =>
            \A i, j \in 1..Len(hist[g]) : i < j => hist[g][i] < hist[g][j]

\* C4. Field round-trip: decoding a returned identifier by the documented
\* layout gives back the generator's data_center_id and worker_id.
C4_FieldRoundTrip ==
    \A g \in Gens :
        HasReturned(g) =>
            /\ DecodeDataCenter(outcome[g].id) = gen[g].data_center_id
            /\ DecodeWorker(outcome[g].id) = gen[g].worker_id

\* C5. Range validation: for worker_id and data_center_id in 0..255,
\* construction succeeds when both are at most 31 (and the clock can be
\* read), and fails, creating no generator, when either is above 31.
C5_RangeValidation ==
    \A g \in Gens :
        pc[g] \in {"idle", "dead"} =>
            LET inRange == args[g].worker_id <= 31 /\ args[g].data_center_id <= 31
            IN  /\ (inRange /\ outcome[g].kind # "panic_overflow") => pc[g] = "idle"
                /\ ~inRange => (pc[g] = "dead" /\ gen[g] = NoGen)

\* C6. Clock regression detection: a next_id call whose first reading, offset
\* subtracted, is below last_time_millis panics, returns no identifier, and
\* reports last_time_millis minus the reading.
C6_ClockRegression ==
    \A g \in Gens :
        (call[g].made /\ call[g].read /\ call[g].now < call[g].last_time_millis) =>
            /\ outcome[g].kind = "panic_clock_backwards"
            /\ outcome[g].millis = call[g].last_time_millis - call[g].now

C6_Witness ==
    \E g \in Gens :
        /\ call[g].made /\ call[g].read
        /\ call[g].now < call[g].last_time_millis
        /\ outcome[g].kind = "panic_clock_backwards"
        /\ outcome[g].millis = MaxClock

\* C7. Sequence rollover boundary: the sequence is incremented modulo 4096,
\* so a call takes the wait path exactly when it finds the sequence at 4095:
\* in one millisecond 4096 calls return and the 4097th is the first to wait.
C7_RolloverAt4096 ==
    \A g \in Gens :
        /\ call[g].waited => call[g].sequence = 2^SEQUENCE_BITS - 1
        /\ (HasReturned(g) /\ ~call[g].waited /\ call[g].now = call[g].last_time_millis)
              => gen[g].sequence = call[g].sequence + 1

\* C8. Epoch offset correctness: the timestamp field of a returned identifier
\* is the wall clock reading adopted for the call minus the offset, and is
\* last_time_millis after the call.
C8_EpochOffset ==
    \A g \in Gens :
        HasReturned(g) =>
            /\ DecodeTimestamp(outcome[g].id) = call[g].wall - gen[g].timestamp_offset
            /\ DecodeTimestamp(outcome[g].id) = gen[g].last_time_millis

\* C9. Every identifier returned from a clock reading not below the offset
\* is strictly greater than 0.
C9_Positive ==
    \A g \in Gens :
        (HasReturned(g) /\ call[g].wall >= gen[g].timestamp_offset) =>
            outcome[g].id > 0

\* The case of C9 where every field but the sequence is 0.
C9_Witness ==
    \E g \in Gens :
        /\ HasReturned(g)
        /\ call[g].wall = gen[g].timestamp_offset
        /\ gen[g].worker_id = 0 /\ gen[g].data_center_id = 0
        /\ gen[g].last_time_millis = 0
        /\ outcome[g].id > 0

\* C10. Sequence exhaustion is not an error and the wait ends: a call that
\* wraps the sequence to 0 enters the wait instead of failing, and a call
\* that waits while the clock reads above last_time_millis returns an
\* identifier, unless the clock stops reading above it first.
C10_WaitTerminates ==
    /\ [](\A g \in Gens :
            (call[g].made /\ call[g].read
                /\ call[g].now = call[g].last_time_millis
                /\ NextSequence(call[g].sequence) = 0)
            => /\ call[g].waited
               /\ outcome[g].kind \in {"none", "returned", "panic_overflow"}
               /\ outcome[g].kind = "none" <=> pc[g] = "wait")
    /\ \A g \in Gens :
          (pc[g] = "wait" /\ ClockAhead(g))
              ~> ((pc[g] = "wait" /\ ~ClockAhead(g)) \/ WaitReturned(g))

C10_Witness == \E g \in Gens : WaitReturned(g) /\ gen[g].sequence = 0

\* A step in which next_id of g returns an identifier: straight from the
\* call, or out of til_next_milliseconds.
Returns(g) ==
    /\ pc[g] \in {"idle", "wait"}
    /\ pc'[g] = "idle"
    /\ outcome'[g].kind = "returned"
    /\ gen'[g] # gen[g]

Range(f) == {f[i] : i \in DOMAIN f}

\* C11. The identifier returned by a call is (timestamp << 22) |
\* (data_center_id << 17) | (worker_id << 12) | sequence, with timestamp and
\* sequence the fields as the call left them; the four parts lie in disjoint
\* bit ranges, so the bitwise OR is their sum.
C11_BitLayout ==
    \A g \in Gens :
        HasReturned(g) =>
            outcome[g].id = ShlU128(gen[g].last_time_millis, 22)
                          + gen[g].data_center_id * 2^17
                          + gen[g].worker_id * 2^12
                          + gen[g].sequence

\* C12. The pair (last_time_millis, sequence) of an identifier a generator
\* returns is never the pair of an identifier it returned before.
C12_PairNeverRepeats ==
    [][\A g \in Gens :
          Returns(g) =>
              <<gen'[g].last_time_millis, gen'[g].sequence>> \notin Range(pairs[g])]_vars

\* C13. No step of a call of next_id, returning or failing, whatever the
\* clock did between the calls or while the call was waiting, leaves
\* last_time_millis smaller than it was.
C13_LastTimeNonDecreasing ==
    [][\A g \in Gens :
          pc[g] \in {"idle", "wait"} =>
              gen'[g].last_time_millis >= gen[g].last_time_millis]_vars

\* A call waited, read the clock below last_time_millis while waiting, and
\* returned later with a larger last_time_millis.
C13_Witness ==
    \E g \in Gens :
        /\ WaitReturned(g)
        /\ call[g].below
        /\ gen[g].last_time_millis > call[g].last_time_millis

\* C14. The identifier returned by a call whose increment wrapped to 0
\* carries a timestamp field greater than the last_time_millis at the entry
\* of the call, and a sequence field of 0.
C14_WaitResult ==
    \A g \in Gens :
        WaitReturned(g) =>
            /\ DecodeTimestamp(outcome[g].id) > call[g].last_time_millis
            /\ DecodeSequence(outcome[g].id) = 0

\* C15. A call that reads the clock below last_time_millis fails with the
\* clock-moved-backwards panic, also when the reading is taken while waiting
\* for the next millisecond.
C15_WaitRegressionFatal ==
    \A g \in Gens :
        call[g].below => outcome[g].kind = "panic_clock_backwards"

\* C16. The sequence is between 0 and 4095 in every state, and a call whose
\* clock reading is greater than last_time_millis returns an identifier whose
\* sequence field is 0.
C16_SequenceRange ==
    \A g \in Gens :
        /\ gen[g].sequence \in 0..(2^SEQUENCE_BITS - 1)
        /\ (HasReturned(g) /\ call[g].now > call[g].last_time_millis) =>
               DecodeSequence(outcome[g].id) = 0

\* C17. The calls of next_id, returning or failing, leave worker_id,
\* data_center_id and timestamp_offset alone: a constructed generator holds
\* the values new was given, in every state.
C17_Frame ==
    \A g \in Gens :
        pc[g] \in {"idle", "wait"} =>
            /\ gen[g].worker_id = args[g].worker_id
            /\ gen[g].data_center_id = args[g].data_center_id
            /\ gen[g].timestamp_offset = args[g].timestamp_offset

\* A generator with an offset has returned identifiers and then failed a call.
C17_Witness ==
    \E g \in Gens :
        /\ outcome[g].kind = "panic_overflow"
        /\ call[g].made
        /\ gen[g].sequence > 0
        /\ gen[g].timestamp_offset = 1

\* C18. A call that fails on a reading below last_time_millis leaves
\* last_time_millis and sequence as they were at its entry, and the call that
\* returns next continues from there: the next sequence in the same
\* millisecond, or sequence 0 in a later one.
C18_UnchangedOnRegression ==
    /\ [](\A g \in Gens :
             outcome[g].kind = "panic_clock_backwards" =>
                 /\ gen[g].last_time_millis = call[g].last_time_millis
                 /\ gen[g].sequence = call[g].sequence)
    /\ [][\A g \in Gens :
             (outcome[g].kind = "panic_clock_backwards" /\ Returns(g)) =>
                 \/ /\ gen'[g].last_time_millis = call[g].last_time_millis
                    /\ gen'[g].sequence = call[g].sequence + 1
                 \/ /\ gen'[g].last_time_millis > call[g].last_time_millis
                    /\ gen'[g].sequence = 0]_vars

\* A call failed on a reading below last_time_millis, after identifiers of
\* the same millisecond.
C18_Witness ==
    \E g \in Gens :
        /\ outcome[g].kind = "panic_clock_backwards"
        /\ call[g].sequence > 1
        /\ gen[g].sequence = call[g].sequence

\* C19. last_time_millis is a wall clock reading minus the offset, never a
\* wrapped difference, and no identifier is returned from a wall clock
\* reading below the offset.
C19_NoWrappedTimestamp ==
    \A g \in Gens :
        /\ pc[g] \in {"idle", "wait"} =>
               gen[g].last_time_millis + gen[g].timestamp_offset \in 0..MaxClock
        /\ HasReturned(g) => call[g].wall >= gen[g].timestamp_offset

====
